---- MODULE Spec2Model ----
(***************************************************************************)
(* A model of h5printer.py: the HDF5Explorer value formatter, the          *)
(* recursive group walker with its console/file session, and the command   *)
(* line entry point that starts a session.                                 *)
(*                                                                         *)
(* Text is modelled by TLA+ strings, which are ASCII.  The box-drawing     *)
(* connectors of the report are therefore written                          *)
(*     "|-"  for U+251C U+2500                                             *)
(*     "|"   for U+2502                                                    *)
(*     a backslash and "-"  for U+2514 U+2500                              *)
(* (same lengths), and the replacement character U+FFFD of a lossy decode  *)
(* is written "?" (byte 63 is not in the byte alphabet of the model).      *)
(*                                                                         *)
(* Scope: a container holds groups and datasets (an item of another type   *)
(* would be skipped by _process_group_item); arrays are integer arrays of  *)
(* one or two dimensions; writes to the console and to the output file     *)
(* succeed; the exceptions raised are subclasses of Exception.             *)
(***************************************************************************)
EXTENDS Integers, Sequences, FiniteSets, TLC

(***************************************************************************)
(* Bounds of the model.                                                    *)
(***************************************************************************)
\* largest max_display_items handed to the formatter
MaxItems == 3
\* largest max_string_length handed to the formatter
MaxStrLen == 3
\* the max_display_items of a session is 0 or this
MaxWalkItems == 1
\* longest array, text and blob handed to the formatter
MaxLen == 4
\* most nodes (root included) of a container
MaxNodes == 4
\* most nodes of a container that carry attributes
MaxAttrNodes == 2

(***************************************************************************)
(* Program constants.                                                      *)
(***************************************************************************)
\* "=" * 60
SeparatorWidth == 60

Min(a, b) == IF a < b THEN a ELSE b
Max(a, b) == IF a > b THEN a ELSE b

(***************************************************************************)
(* Python and numpy text primitives.                                       *)
(***************************************************************************)
\* sep.join(parts)
RECURSIVE Join(_, _)
Join(parts, sep) ==
    IF Len(parts) = 0 THEN ""
    ELSE IF Len(parts) = 1 THEN parts[1]
    ELSE parts[1] \o sep \o Join(Tail(parts), sep)

\* s * n for a string s
RECURSIVE Repeat(_, _)
Repeat(s, n) == IF n <= 0 THEN "" ELSE s \o Repeat(s, n - 1)

\* map(str, xs) for integers
StrEach(xs) == [i \in 1..Len(xs) |-> ToString(xs[i])]

\* the index a slice bound i denotes in a sequence of length n
SliceIndex(i, n) == IF i < 0 THEN Max(n + i, 0) ELSE Min(i, n)

\* seq[lo:hi] (0-based bounds, negative bounds count from the end)
PySlice(seq, lo, hi) ==
    SubSeq(seq, SliceIndex(lo, Len(seq)) + 1, SliceIndex(hi, Len(seq)))

\* numpy right-justifies every element to the widest one
PadLeft(s, w) == Repeat(" ", w - Len(s)) \o s

RECURSIVE MaxWidth(_)
MaxWidth(xs) ==
    IF Len(xs) = 0 THEN 0 ELSE Max(Len(ToString(xs[1])), MaxWidth(Tail(xs)))

\* one bracketed row of str(ndarray), elements padded to width w
RowStr(xs, w) ==
    "[" \o Join([i \in 1..Len(xs) |-> PadLeft(ToString(xs[i]), w)], " ") \o "]"

\* str(array.shape)
ShapeStr(shape) ==
    IF Len(shape) = 1 THEN "(" \o ToString(shape[1]) \o ",)"
    ELSE "(" \o Join(StrEach(shape), ", ") \o ")"

\* str(array) for a 1-D or 2-D integer array
NumpyStr(array) ==
    LET w == MaxWidth(array.elems)
    IN  IF Len(array.shape) = 1 THEN RowStr(array.elems, w)
        ELSE LET cols == array.shape[2]
                 row(r) == SubSeq(array.elems, (r - 1) * cols + 1, r * cols)
             IN  "[" \o Join([r \in 1..array.shape[1] |-> RowStr(row(r), w)],
                             "\n ") \o "]"

\* bytes.decode("utf-8", "replace") over the byte alphabet {97, 98, 128, 255}:
\* an ASCII byte is its character, every byte that cannot start a sequence
\* becomes one replacement character
DecodeByte(b) ==
    IF b = 97 THEN "a" ELSE IF b = 98 THEN "b" ELSE "?"

RECURSIVE DecodeUtf8Replace(_)
DecodeUtf8Replace(data) ==
    IF Len(data) = 0 THEN ""
    ELSE DecodeByte(data[1]) \o DecodeUtf8Replace(Tail(data))

(***************************************************************************)
(* Value formatter.                                                        *)
(***************************************************************************)
FormatNumpyArray(array, maxItems) ==
    LET size == Len(array.elems)
        half_items == maxItems \div 2
        head == PySlice(array.elems, 0, half_items)
        tail == PySlice(array.elems, -half_items, size)
    IN  IF size = 0 THEN "[] (empty array)"
        ELSE IF size <= maxItems THEN NumpyStr(array)
        ELSE IF Len(array.shape) = 1 THEN
            "[" \o Join(StrEach(head), ", ") \o " ... "
                \o Join(StrEach(tail), ", ") \o "] (shape="
                \o ShapeStr(array.shape) \o ", first/last "
                \o ToString(maxItems) \o " items)"
        ELSE "<array of shape " \o ShapeStr(array.shape)
                \o " dtype=" \o array.dtype \o "> (too large to display)"

\* faulty variant: the blob threshold made inclusive, like the string one
FormatBytesDataInclusive(data, maxStringLength) ==
    IF Len(data) <= maxStringLength THEN DecodeUtf8Replace(data)
    ELSE "<bytes of length " \o ToString(Len(data)) \o ">"

FormatBytesData(data, maxStringLength) ==
    IF Len(data) < maxStringLength THEN DecodeUtf8Replace(data)
    ELSE "<bytes of length " \o ToString(Len(data)) \o ">"

\* faulty variant: the string threshold made strict, like the blob one
FormatStringDataStrict(data, maxStringLength) ==
    IF Len(data) < maxStringLength THEN data
    ELSE PySlice(data, 0, maxStringLength) \o "... [truncated]"

FormatStringData(data, maxStringLength) ==
    IF Len(data) <= maxStringLength THEN data
    ELSE PySlice(data, 0, maxStringLength) \o "... [truncated]"

\* format_dataset_content: dispatch on the value's type
FormatDatasetContent(value, maxItems, maxStringLength) ==
    CASE value.kind = "array" -> FormatNumpyArray(value, maxItems)
      [] value.kind = "bytes" -> FormatBytesData(value.data, maxStringLength)
      [] value.kind = "str"   -> FormatStringData(value.data, maxStringLength)
      [] OTHER                -> ToString(value.data)

(***************************************************************************)
(* The container file: a tree of groups and datasets.  Node 1 is the root  *)
(* group; parent[i] < i, and a node's children are iterated in increasing  *)
(* node order, which is the order of their names "n2" < "n3" < ...         *)
(***************************************************************************)
IntArray(elems) ==
    [kind |-> "array", shape |-> <<Len(elems)>>, elems |-> elems,
     dtype |-> "int64"]

Attr(name, value) == [name |-> name, value |-> value]

\* the attribute lists a node may carry
GroupAttrs ==
    { <<>>,
      << Attr("ids", IntArray(<<1, 2, 3>>)),
         Attr("title", [kind |-> "str", data |-> "abcd"]) >> }

DatasetAttrs ==
    { << Attr("units", [kind |-> "bytes", data |-> <<97, 98>>]) >> }

GroupProfiles ==
    { [kind |-> "group", attrs |-> a, data |-> <<>>] : a \in GroupAttrs }

\* payloads are 1-D int64 arrays: an empty one and one of one element
DatasetProfiles ==
    { [kind |-> "dataset", attrs |-> <<>>, data |-> <<>>] }
    \cup { [kind |-> "dataset", attrs |-> a, data |-> <<12>>] : a \in DatasetAttrs }

Profiles == GroupProfiles \cup DatasetProfiles

\* parent vectors of the ordered trees on n nodes, numbered level by level
ParentVecs(n) ==
    { p \in [1..n -> 0..n] :
        /\ p[1] = 0
        /\ \A i \in 2..n : p[i] \in 1..(i - 1)
        /\ \A i \in 2..(n - 1) : p[i] <= p[i + 1] }

\* the children of node i under parent vector p, in native order
ItemsOf(p, n, i) == SelectSeq([k \in 1..n |-> k], LAMBDA j : p[j] = i)

\* the nodes of a labelling that carry attributes
AttrNodes(g, n) == { i \in 1..n : g[i].attrs # <<>> }

Containers(n) ==
    { [n |-> n, parent |-> p, node |-> f,
       items |-> [i \in 1..n |-> ItemsOf(p, n, i)]] :
        p \in ParentVecs(n),
        f \in { g \in [1..n -> Profiles] :
                  /\ g[1].kind = "group"
                  /\ Cardinality(AttrNodes(g, n)) <= MaxAttrNodes } }

\* only groups have children
WellFormed(c) == \A i \in 2..c.n : c.node[c.parent[i]].kind = "group"

AllContainers ==
    UNION { { c \in Containers(n) : WellFormed(c) } : n \in 1..MaxNodes }

EmptyContainer ==
    [n |-> 1, parent |-> <<0>>,
     node |-> <<[kind |-> "group", attrs |-> <<>>, data |-> <<>>]>>,
     items |-> << <<>> >>]

\* group.items(): the children of node i, in native order
Children(c, i) == c.items[i]

NodeName(i) == "n" \o ToString(i)

\* node.name: the absolute path
RECURSIVE Path(_, _)
Path(c, i) ==
    IF i = 1 THEN "/"
    ELSE IF c.parent[i] = 1 THEN "/" \o NodeName(i)
    ELSE Path(c, c.parent[i]) \o "/" \o NodeName(i)

\* dataset.size, dataset.shape, dataset[()]
DatasetSize(c, i) == Len(c.node[i].data)
DatasetValue(c, i) == IntArray(c.node[i].data)

(***************************************************************************)
(* The report's lines.                                                     *)
(***************************************************************************)
FilePath == "data.h5"
OutputPath == "h5_structure.txt"
\* main: the line printed before the explorer is built
MainBanner == "current HDF5 directory: ./" \o FilePath
ReadErrorMsg == "Can't read data"
AttrErrorMsg == "Unable to read attribute"
OpenErrorMsg == "Unable to open file"

Indent(level) == Repeat("  ", level)
Separator == Repeat("=", SeparatorWidth)
HeaderLine == "HDF5 File Structure: " \o FilePath
FooterLine == "\nStructure exploration completed."
SavedNotice == "Results saved to: " \o OutputPath
NotFoundNotice == "Error: HDF5 file '" \o FilePath \o "' not found."
CannotReadNotice(msg) ==
    "Error: Cannot read HDF5 file '" \o FilePath \o "': " \o msg
UnexpectedNotice(msg) == "Unexpected error: " \o msg

GroupLine(c, i, level) == Indent(level) \o "Group: " \o Path(c, i)
SubgroupLine(i, level) == Indent(level) \o "  |- " \o "Subgroup: " \o NodeName(i)

\* _display_attributes: one line per attribute, in native order
AttrLines(attrs, indent, mi, ms) ==
    [k \in 1..Len(attrs) |->
        indent \o "  |- Attribute: " \o attrs[k].name \o " = "
               \o FormatDatasetContent(attrs[k].value, mi, ms)]

\* _process_dataset up to the attributes: name, path, shape, dtype, size
DatasetHeadLines(c, i, level) ==
    LET indent == Indent(level)
        meta == indent \o "  |    |- "
        v == DatasetValue(c, i)
    IN  << indent \o "  |- " \o "Dataset: " \o NodeName(i),
           meta \o "Path: " \o Path(c, i),
           meta \o "Shape: " \o ShapeStr(v.shape),
           meta \o "Dtype: " \o v.dtype,
           meta \o "Size: " \o ToString(DatasetSize(c, i)) \o " elements" >>

DataLine(level, text) == Indent(level) \o "  |    \\- Data: " \o text
TooLargeText(size) ==
    "<too large (" \o ToString(size) \o " elements), skipping display>"
ErrorText(msg) == "<error reading: " \o msg \o ">"

(***************************************************************************)
(* State.                                                                  *)
(***************************************************************************)
VARIABLES
    maxItems,      \* self.max_display_items
    maxStrLen,     \* self.max_string_length
    fileState,     \* what file_path resolves to: "ok", "missing", "corrupt"
    container,     \* the container stored at file_path
    save,          \* save_to_file and output_path
    viaMain,       \* the session is started by main(), not by a direct call
    outExists,     \* the file at output_path exists
    sink,          \* the lines of the file at output_path
    console,       \* the lines printed to standard output
    pc,            \* position in main and explore_file_structure
    h5Open,        \* the container handle is open
    sinkOpen,      \* the output file handle is open
    sinkOpened,    \* open(output_path, "w") has succeeded in this call
    stack,         \* the active calls of traverse_hdf5_group
    visited,       \* the groups, attributes and datasets visited, in order
    materialized,  \* the datasets whose payload was read with dataset[()]
    readFailed,    \* the datasets whose payload read raised
    raised,        \* the exception in flight, by class, or "none"
    excMsg,        \* str(exc) of the exception in flight
    raisedIn,      \* where it was raised: "open", "output", "attr", "none"
    fmtIn,         \* the value handed to format_dataset_content
    fmtOut,        \* the text it returned
    fmtPc          \* "ready", "done", or "off" in a session

vars ==
    << maxItems, maxStrLen, fileState, container, save, viaMain, outExists,
       sink, console, pc, h5Open, sinkOpen, sinkOpened, stack, visited,
       materialized, readFailed, raised, excMsg, raisedIn,
       fmtIn, fmtOut, fmtPc >>

cfgVars == << maxItems, maxStrLen, fileState, container, save, viaMain >>
fmtVars == << fmtIn, fmtOut, fmtPc >>
walkGhost == << visited, materialized, readFailed >>

NoValue == [kind |-> "other", data |-> 0]

\* the exception classes the handlers of explore_file_structure tell apart
ExcClasses == {"FileNotFoundError", "OSError", "Exception"}

\* a session starts either in main() (the command line gives the paths, the
\* limits and the save flag) or with a direct call of explore_file_structure
Init ==
    /\ maxItems \in {0, MaxWalkItems}
    /\ maxStrLen = MaxStrLen
    /\ fileState \in {"ok", "missing", "corrupt"}
    /\ container \in IF fileState = "ok" THEN AllContainers ELSE {EmptyContainer}
    /\ save \in BOOLEAN
    /\ viaMain \in BOOLEAN
    /\ outExists \in IF save THEN BOOLEAN ELSE {FALSE}
    /\ sink = IF outExists THEN <<"stale report">> ELSE <<>>
    /\ console = <<>>
    /\ pc = IF viaMain THEN "main" ELSE "start"
    /\ h5Open = FALSE
    /\ sinkOpen = FALSE
    /\ sinkOpened = FALSE
    /\ stack = <<>>
    /\ visited = <<>>
    /\ materialized = {}
    /\ readFailed = {}
    /\ raised = "none"
    /\ excMsg = ""
    /\ raisedIn = "none"
    /\ fmtIn = NoValue
    /\ fmtOut = ""
    /\ fmtPc = "off"

(***************************************************************************)
(* print_to_console_and_file, applied to each message in turn: the file    *)
(* handle is the output file in a saving session and None otherwise.       *)
(***************************************************************************)
\* faulty variant: the file copy is written only for lines of the traversal body
PrintBodyOnlyToFile(messages, toFile) ==
    /\ console' = console \o messages
    /\ sink' = IF toFile
               THEN sink \o SelectSeq(messages, LAMBDA m : m # Separator)
               ELSE sink

PrintToConsoleAndFile(messages, toFile) ==
    /\ console' = console \o messages
    /\ sink' = IF toFile THEN sink \o messages ELSE sink

\* faulty variant: an exception leaves the output file open
RaiseLeavingSinkOpen(class, msg, where) ==
    /\ raised' = class
    /\ excMsg' = msg
    /\ raisedIn' = where
    /\ stack' = <<>>
    /\ UNCHANGED sinkOpen
    /\ h5Open' = FALSE
    /\ pc' = "except"

\* an exception leaves the with statement: the frames of the walk are
\* dropped, out_file (when it was opened) and then h5file are closed, and
\* the exception reaches the except clauses
Raise(class, msg, where) ==
    /\ raised' = class
    /\ excMsg' = msg
    /\ raisedIn' = where
    /\ stack' = <<>>
    /\ sinkOpen' = FALSE
    /\ h5Open' = FALSE
    /\ pc' = "except"

NoRaise == UNCHANGED << raised, excMsg, raisedIn >>

(***************************************************************************)
(* main: the banner goes to standard output only, then the explorer is     *)
(* built from the parsed arguments and explore_file_structure is called.   *)
(***************************************************************************)
Main ==
    /\ pc = "main"
    /\ console' = Append(console, MainBanner)
    /\ pc' = "start"
    /\ NoRaise
    /\ UNCHANGED << cfgVars, fmtVars, walkGhost, outExists, sink, stack,
                    h5Open, sinkOpen, sinkOpened >>

(***************************************************************************)
(* explore_file_structure: entering the with statement.                    *)
(***************************************************************************)
\* faulty variant: the output file is opened before the container
OpenContainerAfterOutput ==
    /\ pc = "start"
    /\ IF fileState = "ok"
       THEN /\ h5Open' = TRUE
            /\ pc' = IF save THEN "open_out" ELSE "console_body"
            /\ UNCHANGED << stack, outExists, sink, sinkOpened, sinkOpen >>
            /\ NoRaise
       ELSE /\ IF fileState = "missing"
               THEN Raise("FileNotFoundError", OpenErrorMsg, "open")
               ELSE Raise("OSError", OpenErrorMsg, "open")
            /\ outExists' = (save \/ outExists)
            /\ sink' = IF save THEN <<>> ELSE sink
            /\ sinkOpened' = save
    /\ UNCHANGED << cfgVars, fmtVars, walkGhost, console >>

\* h5py.File(file_path, "r")
OpenContainer ==
    /\ pc = "start"
    /\ IF fileState = "ok"
       THEN /\ h5Open' = TRUE
            /\ pc' = IF save THEN "open_out" ELSE "console_body"
            /\ UNCHANGED << stack, sinkOpen >>
            /\ NoRaise
       ELSE IF fileState = "missing"
            THEN Raise("FileNotFoundError", OpenErrorMsg, "open")
            ELSE Raise("OSError", OpenErrorMsg, "open")
    /\ UNCHANGED << cfgVars, fmtVars, walkGhost, outExists, sink, console,
                    sinkOpened >>

\* open(output_path, "w"): creates or truncates the file, or raises
OpenOutput ==
    /\ pc = "open_out"
    /\ \/ /\ sinkOpen' = TRUE
          /\ sinkOpened' = TRUE
          /\ outExists' = TRUE
          /\ sink' = <<>>
          /\ pc' = "file_body"
          /\ UNCHANGED << stack, h5Open >>
          /\ NoRaise
       \/ /\ \E class \in {"FileNotFoundError", "OSError"} :
                Raise(class, OpenErrorMsg, "output")
          /\ UNCHANGED << sinkOpened, outExists, sink >>
    /\ UNCHANGED << cfgVars, fmtVars, walkGhost, console >>

RootFrame == [node |-> 1, level |-> 0, next |-> 1, phase |-> "enter"]

\* _explore_with_file, up to the call of traverse_hdf5_group
ExploreWithFileBegin ==
    /\ pc = "file_body"
    /\ PrintToConsoleAndFile(<<Separator>>, TRUE)
    /\ stack' = <<RootFrame>>
    /\ pc' = "walk"
    /\ NoRaise
    /\ UNCHANGED << cfgVars, fmtVars, walkGhost, outExists, h5Open, sinkOpen,
                    sinkOpened >>

\* _explore_console_only, up to the call of traverse_hdf5_group
ExploreConsoleOnlyBegin ==
    /\ pc = "console_body"
    /\ PrintToConsoleAndFile(<<HeaderLine, Separator>>, FALSE)
    /\ stack' = <<RootFrame>>
    /\ pc' = "walk"
    /\ NoRaise
    /\ UNCHANGED << cfgVars, fmtVars, walkGhost, outExists, h5Open, sinkOpen,
                    sinkOpened >>

(***************************************************************************)
(* The walk: traverse_hdf5_group and the handlers it calls.  A frame is a  *)
(* call of traverse_hdf5_group: the group, its indent_level, the position  *)
(* of the loop over group.items() and the phase of the item in hand.       *)
(***************************************************************************)
Top == stack[Len(stack)]
TopItems == Children(container, Top.node)
TopItem == TopItems[Top.next]
SetTop(frame) == [stack EXCEPT ![Len(stack)] = frame]

AttrVisits(i, k) == [a \in 1..k |-> <<"attr", i, a>>]

\* where the walk stands: at the top of traverse_hdf5_group, at an item of
\* the loop over group.items() (a group or a dataset), at the content line
\* of the dataset in hand, or past the last item
AtGroupEntry == pc = "walk" /\ Top.phase = "enter"
AtItem(kind) ==
    /\ pc = "walk"
    /\ Top.phase = "items"
    /\ Top.next <= Len(TopItems)
    /\ container.node[TopItem].kind = kind
AtContent == pc = "walk" /\ Top.phase = "content"
AtLoopEnd == pc = "walk" /\ Top.phase = "items" /\ Top.next > Len(TopItems)

\* reading an attribute's value may raise; the walk does not catch it, and
\* the class of the exception (an OSError from the library, a
\* FileNotFoundError, a TypeError or any other Exception) selects the except
\* clause of explore_file_structure that reports it
AttrReadErrors == ExcClasses

\* traverse_hdf5_group up to the loop: header line, then _display_attributes
TraverseGroup ==
    /\ AtGroupEntry
    /\ LET i == Top.node
           attrs == container.node[i].attrs
           lines == AttrLines(attrs, Indent(Top.level), maxItems, maxStrLen)
       IN  \E k \in 0..Len(attrs) :
             /\ PrintToConsoleAndFile(
                    <<GroupLine(container, i, Top.level)>> \o SubSeq(lines, 1, k),
                    save)
             /\ visited' = visited \o <<<<"group", i>>>> \o AttrVisits(i, k)
             /\ IF k = Len(attrs)
                THEN /\ stack' = SetTop([Top EXCEPT !.phase = "items"])
                     /\ UNCHANGED << pc, h5Open, sinkOpen >>
                     /\ NoRaise
                ELSE \E class \in AttrReadErrors :
                        Raise(class, AttrErrorMsg, "attr")
    /\ UNCHANGED << cfgVars, fmtVars, materialized, readFailed, outExists,
                    sinkOpened >>

\* faulty variant: the sub-group is queued behind its remaining siblings
ProcessSubgroupDeferred ==
    /\ AtItem("group")
    /\ PrintToConsoleAndFile(<<SubgroupLine(TopItem, Top.level)>>, save)
    /\ stack' = SubSeq(stack, 1, Len(stack) - 1)
                 \o << [node |-> TopItem, level |-> Top.level + 2,
                        next |-> 1, phase |-> "enter"],
                       [Top EXCEPT !.next = @ + 1] >>
    /\ NoRaise
    /\ UNCHANGED << cfgVars, fmtVars, walkGhost, outExists, pc, h5Open,
                    sinkOpen, sinkOpened >>

\* _process_group_item on a group: _process_subgroup
ProcessSubgroup ==
    /\ AtItem("group")
    /\ PrintToConsoleAndFile(<<SubgroupLine(TopItem, Top.level)>>, save)
    /\ stack' = Append(SetTop([Top EXCEPT !.next = @ + 1]),
                       [node |-> TopItem, level |-> Top.level + 2,
                        next |-> 1, phase |-> "enter"])
    /\ NoRaise
    /\ UNCHANGED << cfgVars, fmtVars, walkGhost, outExists, pc, h5Open,
                    sinkOpen, sinkOpened >>

\* _process_group_item on a dataset: _process_dataset up to the content line
ProcessDataset ==
    /\ AtItem("dataset")
    /\ LET i == TopItem
           attrs == container.node[i].attrs
           lines == AttrLines(attrs, Indent(Top.level) \o "  |  ",
                              maxItems, maxStrLen)
       IN  \E k \in 0..Len(attrs) :
             /\ PrintToConsoleAndFile(
                    DatasetHeadLines(container, i, Top.level) \o SubSeq(lines, 1, k),
                    save)
             /\ visited' = visited \o <<<<"dataset", i>>>> \o AttrVisits(i, k)
             /\ IF k = Len(attrs)
                THEN /\ stack' = SetTop([Top EXCEPT !.phase = "content"])
                     /\ UNCHANGED << pc, h5Open, sinkOpen >>
                     /\ NoRaise
                ELSE \E class \in AttrReadErrors :
                        Raise(class, AttrErrorMsg, "attr")
    /\ UNCHANGED << cfgVars, fmtVars, materialized, readFailed, outExists,
                    sinkOpened >>

\* faulty variant: the payload is read before the size is looked at
DisplayDatasetContentEager ==
    /\ AtContent
    /\ LET i == TopItem
           size == DatasetSize(container, i)
       IN  /\ materialized' = materialized \cup {i}
           /\ \E ok \in BOOLEAN :
                /\ readFailed' = IF ok THEN readFailed ELSE readFailed \cup {i}
                /\ PrintToConsoleAndFile(
                     <<DataLine(Top.level,
                         IF ~ok THEN ErrorText(ReadErrorMsg)
                         ELSE IF size <= maxItems
                         THEN FormatDatasetContent(DatasetValue(container, i),
                                                   maxItems, maxStrLen)
                         ELSE TooLargeText(size))>>,
                     save)
    /\ stack' = SetTop([Top EXCEPT !.phase = "items", !.next = @ + 1])
    /\ NoRaise
    /\ UNCHANGED << cfgVars, fmtVars, visited, outExists, pc, h5Open,
                    sinkOpen, sinkOpened >>

\* faulty variant: a failed read is not caught and leaves the walk
DisplayDatasetContentUncaught ==
    /\ AtContent
    /\ LET i == TopItem
           size == DatasetSize(container, i)
       IN  IF size <= maxItems
           THEN /\ materialized' = materialized \cup {i}
                /\ \/ /\ PrintToConsoleAndFile(
                           <<DataLine(Top.level,
                               FormatDatasetContent(DatasetValue(container, i),
                                                    maxItems, maxStrLen))>>,
                           save)
                      /\ stack' = SetTop([Top EXCEPT !.phase = "items",
                                                     !.next = @ + 1])
                      /\ UNCHANGED << readFailed, pc, h5Open, sinkOpen >>
                      /\ NoRaise
                   \/ /\ readFailed' = readFailed \cup {i}
                      /\ Raise("OSError", ReadErrorMsg, "payload")
                      /\ UNCHANGED << console, sink >>
           ELSE /\ PrintToConsoleAndFile(
                     <<DataLine(Top.level, TooLargeText(size))>>, save)
                /\ stack' = SetTop([Top EXCEPT !.phase = "items",
                                               !.next = @ + 1])
                /\ UNCHANGED << materialized, readFailed, pc, h5Open,
                                sinkOpen >>
                /\ NoRaise
    /\ UNCHANGED << cfgVars, fmtVars, visited, outExists, sinkOpened >>

\* _display_dataset_content: the payload is read only when the size allows,
\* and a read that raises is rendered in place
DisplayDatasetContent ==
    /\ AtContent
    /\ LET i == TopItem
           size == DatasetSize(container, i)
       IN  IF size <= maxItems
           THEN /\ materialized' = materialized \cup {i}
                /\ \E ok \in BOOLEAN :
                     /\ readFailed' = IF ok THEN readFailed
                                      ELSE readFailed \cup {i}
                     /\ PrintToConsoleAndFile(
                          <<DataLine(Top.level,
                              IF ok
                              THEN FormatDatasetContent(
                                       DatasetValue(container, i),
                                       maxItems, maxStrLen)
                              ELSE ErrorText(ReadErrorMsg))>>,
                          save)
           ELSE /\ PrintToConsoleAndFile(
                     <<DataLine(Top.level, TooLargeText(size))>>, save)
                /\ UNCHANGED << materialized, readFailed >>
    /\ stack' = SetTop([Top EXCEPT !.phase = "items", !.next = @ + 1])
    /\ NoRaise
    /\ UNCHANGED << cfgVars, fmtVars, visited, outExists, pc, h5Open,
                    sinkOpen, sinkOpened >>

\* the loop over group.items() is exhausted: traverse_hdf5_group returns
ReturnFromGroup ==
    /\ AtLoopEnd
    /\ stack' = SubSeq(stack, 1, Len(stack) - 1)
    /\ pc' = IF Len(stack) = 1 THEN "traversed" ELSE "walk"
    /\ NoRaise
    /\ UNCHANGED << cfgVars, fmtVars, walkGhost, outExists, sink, console,
                    h5Open, sinkOpen, sinkOpened >>

(***************************************************************************)
(* explore_file_structure: after the walk.                                 *)
(***************************************************************************)
\* faulty variant: the notice is printed once the output file has been closed
ExploreWithFileEndAfterClose ==
    /\ pc = "traversed"
    /\ save
    /\ console' = Append(console, SavedNotice)
    /\ sinkOpen' = FALSE
    /\ pc' = "exit_with"
    /\ NoRaise
    /\ UNCHANGED << cfgVars, fmtVars, walkGhost, outExists, sink, stack,
                    h5Open, sinkOpened >>

\* _explore_with_file after the traversal: the notice goes to the console
ExploreWithFileEnd ==
    /\ pc = "traversed"
    /\ save
    /\ console' = Append(console, SavedNotice)
    /\ pc' = "exit_with"
    /\ NoRaise
    /\ UNCHANGED << cfgVars, fmtVars, walkGhost, outExists, sink, stack,
                    h5Open, sinkOpen, sinkOpened >>

\* _explore_console_only after the traversal: the footer
ExploreConsoleOnlyEnd ==
    /\ pc = "traversed"
    /\ ~save
    /\ PrintToConsoleAndFile(<<FooterLine>>, FALSE)
    /\ pc' = "exit_with"
    /\ NoRaise
    /\ UNCHANGED << cfgVars, fmtVars, walkGhost, outExists, stack,
                    h5Open, sinkOpen, sinkOpened >>

\* the body of the with statement has ended: out_file (when it was opened)
\* and then h5file are closed, and explore_file_structure returns
ExitWith ==
    /\ pc = "exit_with"
    /\ sinkOpen' = FALSE
    /\ h5Open' = FALSE
    /\ pc' = "done"
    /\ NoRaise
    /\ UNCHANGED << cfgVars, fmtVars, walkGhost, outExists, sink, console,
                    stack, sinkOpened >>

\* the except clauses, tried in order; every class here is an Exception
HandleException ==
    /\ pc = "except"
    /\ IF raised \in ExcClasses
       THEN /\ console' = Append(console,
                 CASE raised = "FileNotFoundError" -> NotFoundNotice
                   [] raised = "OSError" -> CannotReadNotice(excMsg)
                   [] OTHER -> UnexpectedNotice(excMsg))
            /\ pc' = "done"
       ELSE pc' = "propagated" /\ UNCHANGED console
    /\ NoRaise
    /\ UNCHANGED << cfgVars, fmtVars, walkGhost, outExists, sink, stack,
                    h5Open, sinkOpen, sinkOpened >>

Next ==
    \/ Main
    \/ OpenContainer
    \/ OpenOutput
    \/ ExploreWithFileBegin
    \/ ExploreConsoleOnlyBegin
    \/ TraverseGroup
    \/ ProcessSubgroup
    \/ ProcessDataset
    \/ DisplayDatasetContent
    \/ ReturnFromGroup
    \/ ExploreWithFileEnd
    \/ ExploreConsoleOnlyEnd
    \/ ExitWith
    \/ HandleException

Spec == Init /\ [][Next]_vars

(***************************************************************************)
(* The formatter on its own: every value up to the bounds, under every     *)
(* configuration up to the bounds.                                         *)
(***************************************************************************)
ElemPool == {3, 12}
BytePool == {97, 98, 128, 255}

SeqsUpTo(S, n) == UNION { [1..k -> S] : k \in 0..n }

RECURSIVE TextsOfLen(_)
TextsOfLen(n) ==
    IF n = 0 THEN {""}
    ELSE { t \o ch : t \in TextsOfLen(n - 1), ch \in {"a", "b"} }

Arrays1D == { IntArray(e) : e \in SeqsUpTo(ElemPool, MaxLen) }

\* 2-D arrays of every shape (r, c) with at most MaxLen elements, and the
\* empty shape (0, 2)
Arrays2D ==
    { [kind |-> "array", shape |-> <<0, 2>>, elems |-> <<>>, dtype |-> "int64"] }
    \cup UNION { { [kind |-> "array", shape |-> sh, elems |-> e, dtype |-> "int64"] :
                     e \in [1..(sh[1] * sh[2]) -> ElemPool] } :
                 sh \in { x \in (1..MaxLen) \X (1..MaxLen) : x[1] * x[2] <= MaxLen } }

Blobs == { [kind |-> "bytes", data |-> b] : b \in SeqsUpTo(BytePool, MaxLen) }

Texts ==
    { [kind |-> "str", data |-> t] : t \in UNION { TextsOfLen(k) : k \in 0..MaxLen } }

Others == { [kind |-> "other", data |-> x] : x \in {-1, 0, 42} }

InitFmt ==
    /\ maxItems \in 0..MaxItems
    /\ maxStrLen \in 0..MaxStrLen
    /\ \/ fmtIn \in Arrays1D \cup Arrays2D
       \/ fmtIn \in Blobs
       \/ fmtIn \in Texts
       \/ fmtIn \in Others
    /\ fmtOut = ""
    /\ fmtPc = "ready"
    /\ fileState = "ok"
    /\ container = EmptyContainer
    /\ save = FALSE
    /\ viaMain = FALSE
    /\ outExists = FALSE
    /\ sink = <<>>
    /\ console = <<>>
    /\ pc = "off"
    /\ h5Open = FALSE
    /\ sinkOpen = FALSE
    /\ sinkOpened = FALSE
    /\ stack = <<>>
    /\ visited = <<>>
    /\ materialized = {}
    /\ readFailed = {}
    /\ raised = "none"
    /\ excMsg = ""
    /\ raisedIn = "none"

\* a call of format_dataset_content(data)
FormatValue ==
    /\ fmtPc = "ready"
    /\ fmtOut' = FormatDatasetContent(fmtIn, maxItems, maxStrLen)
    /\ fmtPc' = "done"
    /\ UNCHANGED << cfgVars, walkGhost, fmtIn, outExists, sink, console, pc,
                    h5Open, sinkOpen, sinkOpened, stack, raised, excMsg,
                    raisedIn >>

NextFmt == FormatValue

SpecFmt == InitFmt /\ [][NextFmt]_vars

(***************************************************************************)
(* The walk as a recursive function of the container: what a completed     *)
(* traversal of group i visits and prints.  failed is the set of datasets  *)
(* whose payload read raises.                                              *)
(***************************************************************************)
RECURSIVE PreOrder(_, _), PreOrderItems(_, _)
PreOrder(c, i) ==
    <<<<"group", i>>>> \o AttrVisits(i, Len(c.node[i].attrs))
        \o PreOrderItems(c, Children(c, i))

PreOrderItems(c, items) ==
    IF Len(items) = 0 THEN <<>>
    ELSE LET j == items[1]
         IN  (IF c.node[j].kind = "group" THEN PreOrder(c, j)
              ELSE <<<<"dataset", j>>>> \o AttrVisits(j, Len(c.node[j].attrs)))
             \o PreOrderItems(c, Tail(items))

ContentText(c, j, failed) ==
    IF DatasetSize(c, j) > maxItems THEN TooLargeText(DatasetSize(c, j))
    ELSE IF j \in failed THEN ErrorText(ReadErrorMsg)
    ELSE FormatDatasetContent(DatasetValue(c, j), maxItems, maxStrLen)

RECURSIVE ExpectedBody(_, _, _, _), ExpectedItems(_, _, _, _)
ExpectedBody(c, i, level, failed) ==
    <<GroupLine(c, i, level)>>
        \o AttrLines(c.node[i].attrs, Indent(level), maxItems, maxStrLen)
        \o ExpectedItems(c, Children(c, i), level, failed)

ExpectedItems(c, items, level, failed) ==
    IF Len(items) = 0 THEN <<>>
    ELSE LET j == items[1]
         IN  (IF c.node[j].kind = "group"
              THEN <<SubgroupLine(j, level)>> \o ExpectedBody(c, j, level + 2, failed)
              ELSE DatasetHeadLines(c, j, level)
                   \o AttrLines(c.node[j].attrs, Indent(level) \o "  |  ",
                                maxItems, maxStrLen)
                   \o <<DataLine(level, ContentText(c, j, failed))>>)
             \o ExpectedItems(c, Tail(items), level, failed)

(***************************************************************************)
(* Vocabulary of the properties.                                           *)
(***************************************************************************)
Range(seq) == { seq[k] : k \in 1..Len(seq) }
Holds(seq, x) == \E k \in 1..Len(seq) : seq[k] = x
IsPrefix(a, b) == Len(a) <= Len(b) /\ a = SubSeq(b, 1, Len(a))
NoDuplicates(seq) == Cardinality(Range(seq)) = Len(seq)

Finished == pc \in {"done", "propagated"}

\* the lines explore_file_structure printed: the console without the banner
\* main() printed before the call
BannerLen == IF viaMain /\ pc # "main" THEN 1 ELSE 0
SessionConsole == SubSeq(console, BannerLen + 1, Len(console))

\* the lines the session prints before the root group's header
PrologueLen == IF save THEN 1 ELSE 2
ConsoleBody == SubSeq(SessionConsole, PrologueLen + 1, Len(SessionConsole))

\* _display_dataset_content has just emitted the content line of LastItem
JustDisplayed ==
    /\ pc = "walk"
    /\ stack # <<>>
    /\ Top.phase = "items"
    /\ Top.next > 1
    /\ container.node[TopItems[Top.next - 1]].kind = "dataset"
LastItem == TopItems[Top.next - 1]
LastLine == console[Len(console)]

\* the lines only the console receives in a saving session
NoticeLines ==
    { SavedNotice, NotFoundNotice }
    \cup { CannotReadNotice(m) : m \in {OpenErrorMsg, AttrErrorMsg, ReadErrorMsg} }
    \cup { UnexpectedNotice(m) : m \in {OpenErrorMsg, AttrErrorMsg, ReadErrorMsg} }

InitialSink == IF outExists THEN <<"stale report">> ELSE <<>>

\* the content line of a failed read, at every indentation of the model
ErrorDataLines ==
    { DataLine(lv, ErrorText(ReadErrorMsg)) : lv \in 0..(2 * MaxNodes) }

(***************************************************************************)
(* C1: a dataset's payload is read (dataset[()]) only if its size is at    *)
(* most max_display_items; a larger dataset gets exactly the content line  *)
(* "Data: <too large (<size> elements), skipping display>" and its payload *)
(* is never read.                                                          *)
(***************************************************************************)
C1_MaterializeOnlyIfSmall ==
    /\ \A d \in materialized : DatasetSize(container, d) <= maxItems
    /\ (JustDisplayed /\ DatasetSize(container, LastItem) > maxItems) =>
          /\ LastLine = Indent(Top.level) \o "  |    \\- Data: <too large ("
                          \o ToString(DatasetSize(container, LastItem))
                          \o " elements), skipping display>"
          /\ save => sink[Len(sink)] = LastLine
          /\ LastItem \notin materialized
    /\ (JustDisplayed /\ DatasetSize(container, LastItem) <= maxItems) =>
          LastItem \in materialized

C1_Witness ==
    /\ JustDisplayed
    /\ DatasetSize(container, LastItem) > maxItems
    /\ materialized # {}

(***************************************************************************)
(* C2: when reading one dataset's payload raises, that dataset's content   *)
(* line is "Data: <error reading: <message>>", the error does not leave    *)
(* the walk, and every other node is visited and printed exactly as if the *)
(* read had succeeded.                                                     *)
(***************************************************************************)
C2_ReadErrorContained ==
    /\ raisedIn # "payload"
    /\ readFailed \subseteq materialized
    /\ (JustDisplayed /\ LastItem \in readFailed) =>
          LastLine = Indent(Top.level) \o "  |    \\- Data: <error reading: "
                       \o ReadErrorMsg \o ">"
    /\ pc = "traversed" =>
          LET good == ExpectedBody(container, 1, 0, {})
              body == ConsoleBody
              differ == { k \in 1..Len(good) : body[k] # good[k] }
          IN  /\ Len(body) = Len(good)
              /\ body = IF readFailed = {} THEN good
                        ELSE ExpectedBody(container, 1, 0, readFailed)
              /\ Cardinality(differ) = Cardinality(readFailed)
              /\ \A k \in differ : body[k] \in ErrorDataLines
              /\ visited = PreOrder(container, 1)

C2_Witness ==
    /\ pc = "traversed"
    /\ \E d \in readFailed : \E k \in 1..(Len(visited) - 1) :
          /\ visited[k] = <<"dataset", d>>
          /\ \E later \in (k + 1)..Len(visited) : visited[later][1] = "group"

(***************************************************************************)
(* C3: a walk from the root visits every group, dataset and attribute      *)
(* exactly once, in pre-order depth-first order following the native       *)
(* attribute and child order; datasets are never recursed into and the     *)
(* walk terminates.                                                        *)
(***************************************************************************)
C3_PreOrderOnce ==
    /\ \A k \in 1..Len(stack) : container.node[stack[k].node].kind = "group"
    /\ Len(stack) <= container.n
    /\ pc = "walk" =>
          /\ stack # <<>>
          /\ \/ AtGroupEntry
             \/ AtItem("group")
             \/ AtItem("dataset")
             \/ AtContent
             \/ AtLoopEnd
    /\ (~Finished /\ pc # "walk") => ENABLED Next
    /\ pc \in {"traversed", "except"} =>
          /\ IsPrefix(visited, PreOrder(container, 1))
          /\ NoDuplicates(visited)
    /\ pc = "traversed" =>
          /\ visited = PreOrder(container, 1)
          /\ LET seen == Range(visited)
             IN  \A i \in 1..container.n :
                   /\ <<container.node[i].kind, i>> \in seen
                   /\ \A a \in 1..Len(container.node[i].attrs) :
                         <<"attr", i, a>> \in seen
          /\ Len(visited) = container.n
                + Cardinality({ <<i, a>> \in (1..container.n) \X (1..2) :
                                  a <= Len(container.node[i].attrs) })

\* a sub-group with a child of its own, followed by a sibling
C3_Witness ==
    /\ pc = "traversed"
    /\ container.n = 4
    /\ container.parent = <<0, 1, 1, 2>>
    /\ container.node[2].attrs # <<>>

(***************************************************************************)
(* C4: with an output file, the lines written to the file are the lines    *)
(* written to the console for the separator and the traversal body, same   *)
(* text and same order; the file never holds a line the console did not    *)
(* receive and the console's only extra lines are the session's notices.   *)
(* The session is the call of explore_file_structure: the banner main()    *)
(* prints before the call is on the console only and precedes the session. *)
(***************************************************************************)
C4_DualSink ==
    /\ (save /\ sinkOpened) =>
          /\ IsPrefix(sink, SessionConsole)
          /\ \A k \in (Len(sink) + 1)..Len(SessionConsole) :
                SessionConsole[k] \in NoticeLines
          /\ \A k \in 1..Len(sink) : sink[k] \notin NoticeLines \cup {MainBanner}
          /\ Len(SessionConsole) <= Len(sink) + 1
          /\ pc \in {"walk", "traversed"} => sink = SessionConsole
    /\ ~sinkOpened => sink = InitialSink
    /\ Len(console) = Len(SessionConsole) + BannerLen
    /\ BannerLen = 1 => console[1] = MainBanner

C4_Witness ==
    /\ save
    /\ viaMain
    /\ pc = "done"
    /\ raised = "none"
    /\ Len(sink) > 6
    /\ Len(SessionConsole) = Len(sink) + 1

(***************************************************************************)
(* C8: exploring a nonexistent source path with an output file requested   *)
(* prints the not-found message, aborts, never creates or truncates the    *)
(* output file (it is opened only after the container was opened), and no  *)
(* exception reaches the caller.                                           *)
(***************************************************************************)
C8_MissingSource ==
    /\ sinkOpened => fileState = "ok"
    /\ (fileState = "missing" /\ save) =>
          /\ ~h5Open /\ ~sinkOpen
          /\ sink = InitialSink
          /\ visited = <<>>
          /\ pc # "propagated"
          /\ pc = "done" => SessionConsole = <<NotFoundNotice>>
          /\ pc # "done" => SessionConsole = <<>>

C8_Witness ==
    /\ fileState = "missing"
    /\ save
    /\ outExists
    /\ pc = "done"

(***************************************************************************)
(* C9 as stated: in a saving session the separator of 60 "=" comes before  *)
(* the root traversal, and the completion notice is printed only after the *)
(* output file has been closed.                                            *)
(***************************************************************************)
C9_NoticeAfterClose ==
    (save /\ sinkOpened) =>
       /\ SessionConsole # <<>> => SessionConsole[1] = Separator
       /\ Holds(console, SavedNotice) => ~sinkOpen

(***************************************************************************)
(* C9 amended: in a saving session the separator of 60 "=" is the first    *)
(* line of console and file, before the root group's header; the           *)
(* completion notice is printed once the traversal has completed, while    *)
(* the output file is still open, and the file is closed before the call   *)
(* returns.                                                                *)
(***************************************************************************)
C9_NoticeBeforeClose ==
    (save /\ sinkOpened) =>
       /\ Len(console) > BannerLen =>
             /\ console[BannerLen + 1] =
                  "============================================================"
             /\ sink # <<>> /\ sink[1] = console[BannerLen + 1]
       /\ visited # <<>> =>
             /\ Len(console) >= BannerLen + 2
             /\ console[BannerLen + 2] = GroupLine(container, 1, 0)
       /\ Holds(console, SavedNotice) =>
             /\ LastLine = SavedNotice
             /\ visited = PreOrder(container, 1)
             /\ raised = "none"
             /\ ~Holds(sink, SavedNotice)
             /\ pc \in {"exit_with", "done"}
       /\ pc = "exit_with" => sinkOpen
       /\ pc = "done" => ~sinkOpen

C9_Witness ==
    /\ save
    /\ pc = "exit_with"
    /\ sinkOpen
    /\ LastLine = SavedNotice
    /\ Len(visited) > 2

(***************************************************************************)
(* C10: once the output file has been opened it is closed on every exit    *)
(* path, a traversal that raises partway included; when                    *)
(* explore_file_structure returns, neither the output file nor the         *)
(* container handle is open, and no exception reaches the caller.          *)
(***************************************************************************)
C10_HandlesReleased ==
    /\ pc # "propagated"
    /\ sinkOpen => (sinkOpened /\ h5Open)
    /\ pc \in {"except", "done"} => (~sinkOpen /\ ~h5Open)
    /\ (pc = "done" /\ raised # "none") =>
          /\ Len(SessionConsole) > 0
          /\ LastLine = (CASE raised = "FileNotFoundError" -> NotFoundNotice
                           [] raised = "OSError" -> CannotReadNotice(excMsg)
                           [] OTHER -> UnexpectedNotice(excMsg))

C10_Witness ==
    /\ pc = "done"
    /\ sinkOpened
    /\ raisedIn = "attr"
    /\ raised = "OSError"
    /\ Len(visited) > 2

(***************************************************************************)
(* C5 as stated: for every 1-D array with more than max_display_items      *)
(* elements and every max_display_items >= 0, the output shows exactly     *)
(* floor(max_display_items/2) head elements and as many tail elements      *)
(* around " ... ", and the shape.                                          *)
(***************************************************************************)
C5_HeadTailElision ==
    (/\ fmtPc = "done"
     /\ fmtIn.kind = "array"
     /\ Len(fmtIn.shape) = 1
     /\ Len(fmtIn.elems) > maxItems) =>
        LET n == Len(fmtIn.elems)
            h == maxItems \div 2
            shown(lo, hi) == Join([k \in 1..(hi - lo + 1) |->
                                      ToString(fmtIn.elems[lo + k - 1])], ", ")
        IN  fmtOut = "[" \o shown(1, h) \o " ... " \o shown(n - h + 1, n)
                         \o "] (shape=(" \o ToString(n) \o ",), first/last "
                         \o ToString(maxItems) \o " items)"

(***************************************************************************)
(* C6: for every text and every max_string_length >= 0 the output is the   *)
(* input unchanged when its length is at most max_string_length, and       *)
(* otherwise its first max_string_length characters followed by            *)
(* "... [truncated]".                                                      *)
(***************************************************************************)
C6_StringTruncation ==
    (fmtPc = "done" /\ fmtIn.kind = "str") =>
        IF Len(fmtIn.data) <= maxStrLen
        THEN fmtOut = fmtIn.data /\ Len(fmtOut) = Len(fmtIn.data)
        ELSE /\ Len(fmtOut) = maxStrLen + Len("... [truncated]")
             /\ SubSeq(fmtOut, 1, maxStrLen) = SubSeq(fmtIn.data, 1, maxStrLen)
             /\ SubSeq(fmtOut, maxStrLen + 1, Len(fmtOut)) = "... [truncated]"

C6_Witness ==
    /\ fmtPc = "done"
    /\ fmtIn.kind = "str"
    /\ maxStrLen > 0
    /\ Len(fmtIn.data) = maxStrLen + 1

(***************************************************************************)
(* C7: a blob shorter than max_string_length is rendered as its decoded    *)
(* text, one character per byte of the model's alphabet, and not as the    *)
(* placeholder (whose text is longer than the blob); a blob of length      *)
(* N >= max_string_length is rendered as "<bytes of length N>"; a blob     *)
(* whose length equals max_string_length gets the placeholder, while a     *)
(* text of that length is rendered verbatim.                               *)
(***************************************************************************)
C7_BytesThreshold ==
    /\ (fmtPc = "done" /\ fmtIn.kind = "bytes") =>
          LET n == Len(fmtIn.data)
              placeholder == "<bytes of length " \o ToString(n) \o ">"
          IN  IF n < maxStrLen
              THEN /\ Len(fmtOut) = n
                   /\ Len(placeholder) # n => fmtOut # placeholder
                   /\ \A k \in 1..n :
                         SubSeq(fmtOut, k, k) =
                            (CASE fmtIn.data[k] = 97 -> "a"
                               [] fmtIn.data[k] = 98 -> "b"
                               [] OTHER -> "?")
              ELSE fmtOut = placeholder
    /\ (fmtPc = "done" /\ fmtIn.kind = "str" /\ Len(fmtIn.data) = maxStrLen) =>
          fmtOut = fmtIn.data

C7_Witness ==
    /\ fmtPc = "done"
    /\ fmtIn.kind = "bytes"
    /\ maxStrLen > 0
    /\ Len(fmtIn.data) = maxStrLen

====
